---------------------------- MODULE Spec2Model ----------------------------
(***************************************************************************)
(* A model of the statistical-process-control core of mqr: the control     *)
(* parameter models (src/mqr/spc/lib/control.py), the alarm rules          *)
(* (src/mqr/spc/rules.py) and the alarm grouping (src/mqr/spc/util.py).    *)
(*                                                                         *)
(* Numbers.  The program computes in floating point; the model computes    *)
(* the same expressions exactly.  A number is a rational <<n, d>> in       *)
(* lowest terms with d > 0.  A value that the program obtains through      *)
(* np.sqrt is a "surd" [c, s, w], standing for c + s * sqrt(w) with c and  *)
(* w rationals, w >= 0 and s in {-1, 1}; comparisons against a surd are    *)
(* decided exactly by squaring.                                            *)
(*                                                                         *)
(* Series.  A pandas Series is a sequence; the element at position p       *)
(* (0-based, as in Python) is element p + 1 of the sequence.  The index    *)
(* labels of a series are index0, index0 + 1, ... : index0 = 0 is the      *)
(* default RangeIndex of a DataFrame, index0 = 1 a frame the caller        *)
(* labelled from 1.                                                        *)
(***************************************************************************)
EXTENDS Integers, Sequences, FiniteSets, TLC

VARIABLES
    pc,        \* position of the caller: "input" while the inputs are built,
               \* then the name of the operation that was applied
    params,    \* the ControlParams object
    samples,   \* the samples DataFrame: a sequence of rows
    index0,    \* first index label of samples
    stat,      \* ControlStatistic.stat
    nobs,      \* ControlStatistic.nobs
    rule,      \* the alarm rule that was applied, with its arguments
    alarms,    \* the value the rule returned (or that it raised)
    groups,    \* the value alarm_subsets returned
    lims       \* the values lcl(nobs) and ucl(nobs) returned

vars == <<pc, params, samples, index0, stat, nobs, rule, alarms, groups, lims>>

-----------------------------------------------------------------------------
(* Bounds of the model. *)

\* longest statistic series fed to limits / combine
MaxLen == 2
\* longest statistic series fed to aofb_nsigma
MaxAofb == 4
\* longest statistic series fed to n_1side / n_trending
MaxSide == 6
\* widest rolling window of a run rule
MaxWin == 3
\* longest boolean series fed to alarm_subsets
MaxAlarms == 6
\* most sample rows fed to EwmaParams.statistic / MewmaParams.statistic
MaxRows == 3

-----------------------------------------------------------------------------
(* Exact arithmetic. *)

Abs(x) == IF x < 0 THEN -x ELSE x

RECURSIVE GCD(_, _)
GCD(a, b) == IF b = 0 THEN a ELSE GCD(b, a % b)

\* the rational n / d in lowest terms (d # 0)
Rat(n, d) ==
    LET g == GCD(Abs(n), Abs(d))
        s == IF d < 0 THEN -1 ELSE 1
    IN  <<(s * n) \div g, (s * d) \div g>>

RInt(n) == <<n, 1>>
\* sums, products and comparisons reduce by common factors before they
\* multiply, which keeps the intermediate integers small
RAdd(p, q) ==
    LET g == GCD(p[2], q[2])
    IN  Rat(p[1] * (q[2] \div g) + q[1] * (p[2] \div g), (p[2] \div g) * q[2])
RNeg(p) == <<-p[1], p[2]>>
RSub(p, q) == RAdd(p, RNeg(q))
RMul(p, q) ==
    LET a == Rat(p[1], q[2])
        b == Rat(q[1], p[2])
    IN  Rat(a[1] * b[1], a[2] * b[2])
RDiv(p, q) == RMul(p, IF q[1] < 0 THEN <<-q[2], -q[1]>> ELSE <<q[2], q[1]>>)
RLeq(p, q) ==
    LET g == GCD(p[2], q[2])
    IN  p[1] * (q[2] \div g) <= q[1] * (p[2] \div g)
RSign(p)   == IF p[1] > 0 THEN 1 ELSE IF p[1] < 0 THEN -1 ELSE 0

RECURSIVE RPow(_, _)
RPow(p, k) == IF k = 0 THEN RInt(1) ELSE RMul(p, RPow(p, k - 1))

\* c + s * sqrt(w); the sign of a zero root is normalised to 1
Surd(c, s, w) == [c |-> c, s |-> IF w[1] = 0 THEN 1 ELSE s, w |-> w]
SConst(c) == Surd(c, 1, RInt(0))
\* np.sqrt(w)
SSqrt(w) == Surd(RInt(0), 1, w)
\* k * x for a rational k
SScale(k, x) ==
    Surd(RMul(k, x.c), IF RSign(k) < 0 THEN -x.s ELSE x.s, RMul(RMul(k, k), x.w))
\* c0 + x and c0 - x for a rational c0
SAdd(c0, x) == Surd(RAdd(c0, x.c), x.s, x.w)
SSub(c0, x) == Surd(RSub(c0, x.c), -x.s, x.w)

\* v >= x and v <= x for a rational v and a surd x
SGeq(v, x) ==
    LET d  == RSub(v, x.c)
        d2 == RMul(d, d)
    IN  IF x.s = 1
        THEN RSign(d) >= 0 /\ RLeq(x.w, d2)
        ELSE RSign(d) >= 0 \/ RLeq(d2, x.w)
SLeq(v, x) ==
    LET d  == RSub(v, x.c)
        d2 == RMul(d, d)
    IN  IF x.s = 1
        THEN RSign(d) <= 0 \/ RLeq(d2, x.w)
        ELSE RSign(d) <= 0 /\ RLeq(x.w, d2)

\* the limit as it would be without np.clip
SClip0_off(x) == x

\* np.clip(x, 0, np.inf)
SClip0(x) == IF SGeq(RInt(0), x) THEN SConst(RInt(0)) ELSE x

-----------------------------------------------------------------------------
(* Outcomes.  A call either returns a value or raises. *)

Ok(v) == [err |-> "", val |-> v]
Raise(e) == [err |-> e, val |-> <<>>]

\* a limit that is a series, and the limit None
Limit(v) == [err |-> "", none |-> FALSE, val |-> v]
NoLimit == [err |-> "", none |-> TRUE, val |-> <<>>]
LimitRaise(e) == [err |-> e, none |-> FALSE, val |-> <<>>]

-----------------------------------------------------------------------------
(* Bias-constant tables, src/mqr/spc/util.py.  The tables are pickled data *)
(* that the package ships: entry n - 2 is c4_fn(n), d2_integral(n),        *)
(* d3_integral(n) for n = 2..100.  They are given here to three decimals,  *)
(* in thousandths.                                                         *)

TableMin == 2
TableMax == 100

c4_table ==
    << 798, 886, 921, 940, 952, 959, 965, 969, 973, 975, 978, 979, 981, 982,
       983, 985, 985, 986, 987, 988, 988, 989, 989, 990, 990, 990, 991, 991,
       991, 992, 992, 992, 992, 993, 993, 993, 993, 993, 994, 994, 994, 994,
       994, 994, 994, 995, 995, 995, 995, 995, 995, 995, 995, 995, 995, 996,
       996, 996, 996, 996, 996, 996, 996, 996, 996, 996, 996, 996, 996, 996,
       996, 997, 997, 997, 997, 997, 997, 997, 997, 997, 997, 997, 997, 997,
       997, 997, 997, 997, 997, 997, 997, 997, 997, 997, 997, 997, 997, 997,
       997 >>
d2_table ==
    << 1128, 1693, 2059, 2326, 2534, 2704, 2847, 2970, 3078, 3173, 3258,
       3336, 3407, 3472, 3532, 3588, 3640, 3689, 3735, 3778, 3819, 3858,
       3895, 3931, 3964, 3997, 4027, 4057, 4086, 4113, 4139, 4165, 4189,
       4213, 4236, 4259, 4280, 4301, 4322, 4341, 4361, 4379, 4398, 4415,
       4433, 4450, 4466, 4482, 4498, 4514, 4529, 4543, 4558, 4572, 4586,
       4599, 4613, 4626, 4639, 4651, 4663, 4676, 4687, 4699, 4711, 4722,
       4733, 4744, 4755, 4765, 4776, 4786, 4796, 4806, 4816, 4825, 4835,
       4844, 4854, 4863, 4872, 4881, 4889, 4898, 4906, 4915, 4923, 4931,
       4939, 4947, 4955, 4963, 4971, 4978, 4986, 4993, 5001, 5008, 5015 >>
d3_table ==
    << 853, 888, 880, 864, 848, 833, 820, 808, 797, 787, 778, 770, 763, 756,
       750, 744, 739, 733, 729, 724, 720, 716, 712, 708, 705, 702, 699, 696,
       693, 690, 687, 685, 682, 680, 678, 675, 673, 671, 669, 667, 665, 664,
       662, 660, 658, 657, 655, 654, 652, 651, 649, 648, 646, 645, 644, 643,
       641, 640, 639, 638, 637, 636, 634, 633, 632, 631, 630, 629, 628, 627,
       626, 625, 625, 624, 623, 622, 621, 620, 619, 619, 618, 617, 616, 615,
       615, 614, 613, 612, 612, 611, 610, 610, 609, 608, 608, 607, 606, 606,
       605 >>

\* table[index] for a 0-based index
lookup(index, table) == Rat(table[index + 1], 1000)

\* the range check as it would be with the two ends of the range excluded
OutOfTable_exclusive(n) == \E i \in DOMAIN n : n[i] <= TableMin \/ n[i] >= TableMax

\* np.any(n < 2) or np.any(n > 100), for a series n
OutOfTable(n) == \E i \in DOMAIN n : n[i] < TableMin \/ n[i] > TableMax

c4(n) == lookup(n - TableMin, c4_table)
d2(n) == lookup(n - TableMin, d2_table)
d3(n) == lookup(n - TableMin, d3_table)

-----------------------------------------------------------------------------
(* Control parameter models, src/mqr/spc/lib/control.py.  A parameter      *)
(* object is a record of its dataclass fields, with kind naming its class. *)

XBarParams(centre, sigma, nsigma) ==
    [kind |-> "XBar", centre |-> centre, sigma |-> sigma, nsigma |-> nsigma]
RParams(centre, sigma, nsigma) ==
    [kind |-> "R", centre |-> centre, sigma |-> sigma, nsigma |-> nsigma]
SParams(centre, nsigma) ==
    [kind |-> "S", centre |-> centre, nsigma |-> nsigma]
EwmaParams(mu_0, sigma, lmda, L, steady_state) ==
    [kind |-> "EWMA", mu_0 |-> mu_0, sigma |-> sigma, lmda |-> lmda, L |-> L,
     steady_state |-> steady_state]
MewmaParams(mu, cov, lmda, limit) ==
    [kind |-> "MEWMA", mu |-> mu, cov |-> cov, lmda |-> lmda, limit |-> limit]

\* XBarParams.se for one sample size: sigma / sqrt(nobs)
XBarParams_se(p, n) == SSqrt(RDiv(RMul(p.sigma, p.sigma), RInt(n)))
\* RParams.se: d3(nobs) * sigma
RParams_se(p, n) == SConst(RMul(d3(n), p.sigma))
\* SParams.se: centre * sqrt(1 - c4(nobs)**2) / c4(nobs)
SParams_se(p, n) ==
    SScale(RDiv(p.centre, c4(n)), SSqrt(RSub(RInt(1), RMul(c4(n), c4(n)))))

\* se(nobs) for a series nobs
se(p, n) ==
    CASE p.kind = "XBar" -> Ok([i \in DOMAIN n |-> XBarParams_se(p, n[i])])
      [] p.kind = "R" ->
            IF OutOfTable(n) THEN Raise("ValueError")
            ELSE Ok([i \in DOMAIN n |-> RParams_se(p, n[i])])
      [] p.kind = "S" ->
            IF OutOfTable(n) THEN Raise("ValueError")
            ELSE Ok([i \in DOMAIN n |-> SParams_se(p, n[i])])
      [] OTHER -> Raise("AttributeError")

\* target(): XBarParams.target reads the name nobs, which is bound nowhere
target(p) ==
    CASE p.kind = "XBar" -> Raise("NameError")
      [] p.kind = "R" -> Ok(p.centre)
      [] p.kind = "S" -> Ok(p.centre)
      [] p.kind = "EWMA" -> Ok(p.mu_0)
      [] p.kind = "MEWMA" -> Ok(RInt(0))

\* the argument of np.sqrt in EwmaParams.lcl / ucl at index label t
EwmaParams_sqrt_arg(p, t) ==
    LET base == RDiv(p.lmda, RSub(RInt(2), p.lmda))
    IN  IF p.steady_state THEN base
        ELSE RMul(base, RSub(RInt(1), RPow(RSub(RInt(1), p.lmda), 2 * t)))

\* L * stderr * sqrt_term at sample size n and index label t
EwmaParams_width(p, n, t) ==
    SScale(p.L, SSqrt(RMul(RDiv(RMul(p.sigma, p.sigma), RInt(n)),
                           EwmaParams_sqrt_arg(p, t))))

\* lcl(nobs) for a series nobs
lcl(p, n) ==
    CASE p.kind = "XBar" -> NoLimit
      [] p.kind = "R" ->
            IF OutOfTable(n) THEN LimitRaise("ValueError")
            ELSE Limit([i \in DOMAIN n |->
                    SClip0(SSub(p.centre, SScale(p.nsigma, RParams_se(p, n[i]))))])
      [] p.kind = "S" ->
            IF OutOfTable(n) THEN LimitRaise("ValueError")
            ELSE Limit([i \in DOMAIN n |->
                    SClip0(SSub(p.centre, SScale(p.nsigma, SParams_se(p, n[i]))))])
      [] p.kind = "EWMA" ->
            Limit([i \in DOMAIN n |->
                    SSub(p.mu_0, EwmaParams_width(p, n[i], index0 + i - 1))])
      [] p.kind = "MEWMA" -> NoLimit

\* ucl as it would be if it returned what lcl returns
ucl_as_lcl(p, n) == lcl(p, n)

\* ucl(nobs) for a series nobs
ucl(p, n) ==
    CASE p.kind = "XBar" ->
            Limit([i \in DOMAIN n |->
                    SAdd(p.centre, SScale(p.nsigma, XBarParams_se(p, n[i])))])
      [] p.kind = "R" ->
            IF OutOfTable(n) THEN LimitRaise("ValueError")
            ELSE Limit([i \in DOMAIN n |->
                    SAdd(p.centre, SScale(p.nsigma, RParams_se(p, n[i])))])
      [] p.kind = "S" ->
            IF OutOfTable(n) THEN LimitRaise("ValueError")
            ELSE Limit([i \in DOMAIN n |->
                    SAdd(p.centre, SScale(p.nsigma, SParams_se(p, n[i])))])
      [] p.kind = "EWMA" ->
            Limit([i \in DOMAIN n |->
                    SAdd(p.mu_0, EwmaParams_width(p, n[i], index0 + i - 1))])
      [] p.kind = "MEWMA" -> Limit([i \in DOMAIN n |-> SConst(p.limit)])

-----------------------------------------------------------------------------
(* Alarm rules, src/mqr/spc/rules.py.  A rule is a record naming the rule  *)
(* and its arguments; applying it to a statistic and a parameter object    *)
(* returns a boolean series or raises.                                     *)

Rule_limits == [name |-> "limits"]
Rule_aofb_nsigma(a, b, n) == [name |-> "aofb_nsigma", a |-> a, b |-> b, n |-> n]
Rule_n_1side(n) == [name |-> "n_1side", n |-> n]
Rule_n_trending(n) == [name |-> "n_trending", n |-> n]
Rule_combine(combn_fn, rules) ==
    [name |-> "combine", combn_fn |-> combn_fn, rules |-> rules]

\* series >= limit and series <= limit; pandas compares a series with None
\* as False at every position
SeriesGe(st, lim) ==
    [i \in DOMAIN st |-> IF lim.none THEN FALSE ELSE SGeq(st[i], lim.val[i])]
SeriesLe(st, lim) ==
    [i \in DOMAIN st |-> IF lim.none THEN FALSE ELSE SLeq(st[i], lim.val[i])]

\* the positions of the window that series.rolling(b) yields at position i
Window(i, b) == (IF i > b THEN i - b + 1 ELSE 1)..i

\* a numpy logical function applied to two boolean series
Apply_combn_fn(combn_fn, x, y) ==
    [i \in DOMAIN x |->
        CASE combn_fn = "logical_or" -> x[i] \/ y[i]
          [] combn_fn = "logical_and" -> x[i] /\ y[i]
          [] combn_fn = "logical_xor" -> x[i] # y[i]]

\* limits as it would be with strict comparisons
limits_strict(st, nb, p) ==
    LET l == lcl(p, nb)
        u == ucl(p, nb)
    IN  IF l.err # "" THEN Raise(l.err)
        ELSE IF u.err # "" THEN Raise(u.err)
        ELSE Ok([i \in DOMAIN st |->
                (~u.none /\ ~SLeq(st[i], u.val[i])) \/ (~l.none /\ ~SGeq(st[i], l.val[i]))])

\* limits as it would be if a comparison with None raised
limits_none_raises(st, nb, p) ==
    LET l == lcl(p, nb)
        u == ucl(p, nb)
    IN  IF l.err # "" THEN Raise(l.err)
        ELSE IF u.err # "" THEN Raise(u.err)
        ELSE IF l.none \/ u.none THEN Raise("TypeError")
        ELSE Ok(Apply_combn_fn("logical_or", SeriesGe(st, u), SeriesLe(st, l)))

\* (stat >= ucl) | (stat <= lcl)
limits(st, nb, p) ==
    LET l == lcl(p, nb)
        u == ucl(p, nb)
    IN  IF l.err # "" THEN Raise(l.err)
        ELSE IF u.err # "" THEN Raise(u.err)
        ELSE Ok(Apply_combn_fn("logical_or", SeriesGe(st, u), SeriesLe(st, l)))

\* a of the last b points at or beyond n standard errors, on one side
\* the two loops of the rule, for the target t and the standard errors e
\* that the rule has read
aofb_nsigma_alarms(a, b, n, st, t, e) ==
    LET above == [i \in DOMAIN st |->
                    SGeq(st[i], SAdd(t, SScale(RInt(n), e[i])))]
        below == [i \in DOMAIN st |->
                    SLeq(st[i], SSub(t, SScale(RInt(n), e[i])))]
    IN  [i \in DOMAIN st |->
            \/ Cardinality({j \in Window(i, b) : above[j]}) >= a
            \/ Cardinality({j \in Window(i, b) : below[j]}) >= a]

aofb_nsigma(a, b, n, st, nb, p) ==
    LET t == target(p)
        e == se(p, nb)
    IN  IF a > b THEN Raise("ValueError")
        ELSE IF t.err # "" THEN Raise(t.err)
        ELSE IF e.err # "" THEN Raise(e.err)
        ELSE Ok(aofb_nsigma_alarms(a, b, n, st, t.val, e.val))

\* np.sign(stat - target)
SignSeries(st, t) == [i \in DOMAIN st |-> RSign(RSub(st[i], t))]

\* a full window of n points with a single sign
n_1side(n, st, p) ==
    LET t == target(p)
        sg == SignSeries(st, t.val)
    IN  IF t.err # "" THEN Raise(t.err)
        ELSE Ok([i \in DOMAIN st |->
                /\ Cardinality(Window(i, n)) = n
                /\ Cardinality({sg[j] : j \in Window(i, n)}) = 1])

\* a float that is NaN, and a float that is a number
NaN == [nan |-> TRUE, v |-> 0]
Num(v) == [nan |-> FALSE, v |-> v]

\* np.sign(stat.diff()): the first difference of a series is NaN
DiffSign(st) ==
    [i \in DOMAIN st |-> IF i = 1 THEN NaN ELSE Num(RSign(RSub(st[i], st[i - 1])))]

\* a full window of n-1 first differences with a single sign; NaN counts as
\* a value of its own
n_trending(n, st, p) ==
    LET t == target(p)
        sg == DiffSign(st)
    IN  IF t.err # "" THEN Raise(t.err)
        ELSE Ok([i \in DOMAIN st |->
                /\ Cardinality(Window(i, n - 1)) = n - 1
                /\ Cardinality({sg[j] : j \in Window(i, n - 1)}) = 1])

\* functools.reduce(fn, xs) for a non-empty list xs
RECURSIVE reduce(_, _)
reduce(fn, xs) ==
    IF Len(xs) = 1 THEN xs[1]
    ELSE Apply_combn_fn(fn, reduce(fn, SubSeq(xs, 1, Len(xs) - 1)), xs[Len(xs)])

\* a rule called on (control_statistic, control_params)
RECURSIVE ApplyRule(_, _, _, _)

\* combine as it would be if only the first rule were applied
combine_first_only(combn_fn, rules, st, nb, p) ==
    ApplyRule(rules[1], st, nb, p)

\* reduce(combn_fn, [rule(control_statistic, control_params) for rule in rules])
combine(combn_fn, rules, st, nb, p) ==
    LET outs == [k \in DOMAIN rules |-> ApplyRule(rules[k], st, nb, p)]
        bad == {k \in DOMAIN rules : outs[k].err # ""}
        first == CHOOSE k \in bad : \A m \in bad : k <= m
    IN  IF bad # {} THEN Raise(outs[first].err)
        ELSE Ok(reduce(combn_fn, [k \in DOMAIN rules |-> outs[k].val]))

ApplyRule(r, st, nb, p) ==
    CASE r.name = "limits" -> limits(st, nb, p)
      [] r.name = "aofb_nsigma" -> aofb_nsigma(r.a, r.b, r.n, st, nb, p)
      [] r.name = "n_1side" -> n_1side(r.n, st, p)
      [] r.name = "n_trending" -> n_trending(r.n, st, p)
      [] r.name = "combine" -> combine(r.combn_fn, r.rules, st, nb, p)

-----------------------------------------------------------------------------
(* State machine.  The caller builds a ControlStatistic point by point,    *)
(* then calls one rule on it; the outcome of the call is kept in alarms.   *)

NoRule == [name |-> "none"]
Unset == Raise("unset")

\* everything but the parameter object, the index labels and the statistic
InitRest ==
    /\ pc = "input"
    /\ samples = <<>>
    /\ stat = <<>>
    /\ nobs = <<>>
    /\ rule = NoRule
    /\ alarms = Unset
    /\ groups = <<>>
    /\ lims = <<>>

\* ControlStatistic(stat, nobs) with one more point (value x, sample size n)
Observe(maxlen, x, n) ==
    /\ pc = "input"
    /\ Len(stat) < maxlen
    /\ stat' = Append(stat, RInt(x))
    /\ nobs' = Append(nobs, n)
    /\ UNCHANGED <<pc, params, samples, index0, rule, alarms, groups, lims>>

\* alarms = r(control_statistic, control_params)
Call(r) ==
    /\ pc = "input"
    /\ rule' = r
    /\ alarms' = ApplyRule(r, stat, nobs, params)
    /\ pc' = "called"
    /\ UNCHANGED <<params, samples, index0, stat, nobs, groups, lims>>

(* limits and combine *)

LimitsVals == {0, 2, 4, 6, 10}
LimitsNobs == {2, 3}
Half == Rat(1, 2)
TwoThirds == Rat(2, 3)
LimitsParams ==
    { RParams(RInt(4), RInt(2), RInt(3)),
      SParams(RInt(2), RInt(3)),
      EwmaParams(RInt(4), RInt(2), TwoThirds, RInt(2), TRUE),
      EwmaParams(RInt(4), RInt(2), TwoThirds, RInt(2), FALSE),
      MewmaParams(<<RInt(0), RInt(0)>>, <<<<RInt(1), RInt(0)>>, <<RInt(0), RInt(1)>>>>,
                  Half, RInt(6)),
      XBarParams(RInt(4), RInt(2), RInt(3)) }
CombineRules ==
    { Rule_combine(f, rs) :
        f \in {"logical_or", "logical_and"},
        rs \in { <<Rule_limits, Rule_n_1side(2)>>,
                 <<Rule_n_1side(2), Rule_limits, Rule_n_trending(2)>> } }
    \cup { Rule_combine("logical_xor", <<Rule_limits, Rule_n_1side(2), Rule_n_1side(1)>>) }

InitLimits ==
    /\ params \in LimitsParams
    /\ index0 \in (IF params.kind = "EWMA" /\ ~params.steady_state THEN {0, 1} ELSE {0})
    /\ InitRest

ObserveLimits == \E x \in LimitsVals, n \in LimitsNobs : Observe(MaxLen, x, n)
CallLimits == Call(Rule_limits)
CallCombine == \E r \in CombineRules : Call(r)

NextLimits == ObserveLimits \/ CallLimits \/ CallCombine
SpecLimits == InitLimits /\ [][NextLimits]_vars

-----------------------------------------------------------------------------
(* Claims about limits and combine, checked under SpecLimits. *)

Called(name) == pc = "called" /\ rule.name = name
BothLimits == ~lcl(params, nobs).none /\ ~ucl(params, nobs).none
OnLimit(v, x) == SGeq(v, x) /\ SLeq(v, x)

\* C1: when lcl and ucl are both defined, limits returns one flag per point,
\* and point i is flagged exactly when stat[i] >= ucl(nobs[i]) or
\* stat[i] <= lcl(nobs[i]); a point exactly on a limit is flagged.
C1_LimitsBothSides ==
    (Called("limits") /\ BothLimits) =>
        /\ alarms.err = ""
        /\ DOMAIN alarms.val = DOMAIN stat
        /\ \A i \in DOMAIN stat :
             LET u == ucl(params, nobs).val[i]
                 l == lcl(params, nobs).val[i]
             IN  /\ alarms.val[i] <=> (SGeq(stat[i], u) \/ SLeq(stat[i], l))
                 /\ (OnLimit(stat[i], u) \/ OnLimit(stat[i], l)) => alarms.val[i]

\* C1 witness: limits that differ, a flagged point exactly on the upper limit
\* and a flagged point exactly on the lower limit.
C1_Witness ==
    /\ Called("limits") /\ BothLimits /\ alarms.err = ""
    /\ \E i, j \in DOMAIN stat :
         /\ OnLimit(stat[i], ucl(params, nobs).val[i])
         /\ ~OnLimit(stat[i], lcl(params, nobs).val[i])
         /\ OnLimit(stat[j], lcl(params, nobs).val[j])
         /\ ~OnLimit(stat[j], ucl(params, nobs).val[j])
         /\ alarms.val[i] /\ alarms.val[j]

\* C2: when lcl(nobs) or ucl(nobs) is None, limits returns without raising
\* and point i is flagged exactly when the limit that exists is reached.
C2_LimitsMissingSide ==
    (Called("limits") /\ ~BothLimits) =>
        LET u == ucl(params, nobs)
            l == lcl(params, nobs)
        IN  /\ alarms.err = ""
            /\ DOMAIN alarms.val = DOMAIN stat
            /\ \A i \in DOMAIN stat :
                 alarms.val[i] <=>
                    \/ ~u.none /\ SGeq(stat[i], u.val[i])
                    \/ ~l.none /\ SLeq(stat[i], l.val[i])

\* C2 witness: MewmaParams (lcl is None), one point on the upper limit that
\* is flagged and one point below it that is not.
C2_Witness ==
    /\ Called("limits") /\ params.kind = "MEWMA" /\ lcl(params, nobs).none
    /\ alarms.err = ""
    /\ \E i \in DOMAIN stat : OnLimit(stat[i], ucl(params, nobs).val[i]) /\ alarms.val[i]
    /\ \E i \in DOMAIN stat : ~alarms.val[i]

\* the point-wise fold of a combinator over k flags
RECURSIVE FoldFlags(_, _)
FoldFlags(f, bs) ==
    IF Len(bs) = 1 THEN bs[1]
    ELSE LET rest == FoldFlags(f, SubSeq(bs, 1, Len(bs) - 1))
             last == bs[Len(bs)]
         IN  CASE f = "logical_or" -> rest \/ last
               [] f = "logical_and" -> rest /\ last
               [] f = "logical_xor" -> rest # last

\* C6: combine(op, r1, ..., rk) returns the point-wise fold of op over the
\* series that r1..rk return on the same statistic and parameters (and
\* raises when one of them raises); combine(logical_or, limits, n_1side(n))
\* flags point i exactly when limits or n_1side(n) alone flags i.
C6_CombineFolds ==
    Called("combine") =>
        LET outs == [k \in DOMAIN rule.rules |->
                        ApplyRule(rule.rules[k], stat, nobs, params)]
        IN  IF \E k \in DOMAIN outs : outs[k].err # ""
            THEN alarms.err # ""
            ELSE /\ alarms.err = ""
                 /\ DOMAIN alarms.val = DOMAIN stat
                 /\ \A i \in DOMAIN stat :
                      alarms.val[i] =
                        FoldFlags(rule.combn_fn, [k \in DOMAIN outs |-> outs[k].val[i]])
                 /\ (rule.combn_fn = "logical_or" /\ Len(rule.rules) = 2) =>
                      \A i \in DOMAIN stat :
                        alarms.val[i] <=> (outs[1].val[i] \/ outs[2].val[i])

\* C6 witness: combine(logical_or, limits, n_1side(2)) on a series with a
\* point only limits flags, and a point only n_1side(2) flags.
C6_Witness ==
    /\ Called("combine") /\ rule.combn_fn = "logical_or"
    /\ rule.rules = <<Rule_limits, Rule_n_1side(2)>>
    /\ alarms.err = ""
    /\ LET a == limits(stat, nobs, params).val
           b == n_1side(2, stat, params).val
       IN  /\ \E i \in DOMAIN stat : a[i] /\ ~b[i] /\ alarms.val[i]
           /\ \E i \in DOMAIN stat : ~a[i] /\ b[i] /\ alarms.val[i]

-----------------------------------------------------------------------------
(* aofb_nsigma.  Values are in thousandths: with RParams(4000, 1000, 3)    *)
(* the 1-sigma thresholds are 4000 +/- 853 at nobs = 2 and 4000 +/- 888 at *)
(* nobs = 3, the 2-sigma thresholds 4000 +/- 1706 and 4000 +/- 1776.       *)

AofbPoints == { <<2000, 3>>, <<3147, 2>>, <<4853, 2>>, <<4853, 3>>, <<6000, 3>> }
AofbSigmas == {1, 2}
AofbParams ==
    { RParams(RInt(4000), RInt(1000), RInt(3)),
      XBarParams(RInt(4000), RInt(1000), RInt(3)) }

InitAofb ==
    /\ params \in AofbParams
    /\ index0 = 0
    /\ InitRest

ObserveAofb == \E pt \in AofbPoints : Observe(MaxAofb, pt[1], pt[2])

\* aofb_nsigma(a, b, n) as it would be if it also refused a = b
aofb_nsigma_create_strict(a, b, n) ==
    IF a >= b THEN Raise("ValueError") ELSE Ok(Rule_aofb_nsigma(a, b, n))

\* aofb_nsigma(a, b, n): the outer function, which checks a and b and
\* returns the rule
aofb_nsigma_create(a, b, n) ==
    IF a > b THEN Raise("ValueError") ELSE Ok(Rule_aofb_nsigma(a, b, n))

\* rule = aofb_nsigma(a, b, n); rule keeps the arguments of the call, and
\* alarms what the call raised
CreateAofb == \E a \in 1..MaxWin, b \in 1..MaxWin, n \in AofbSigmas :
    /\ pc = "input"
    /\ rule' = Rule_aofb_nsigma(a, b, n)
    /\ LET r == aofb_nsigma_create(a, b, n)
       IN  IF r.err # "" THEN alarms' = Raise(r.err) /\ pc' = "raised"
           ELSE alarms' = alarms /\ pc' = "created"
    /\ UNCHANGED <<params, samples, index0, stat, nobs, groups, lims>>

\* alarms = rule(control_statistic, control_params)
ApplyAofb ==
    /\ pc = "created"
    /\ alarms' = ApplyRule(rule, stat, nobs, params)
    /\ pc' = "called"
    /\ UNCHANGED <<params, samples, index0, stat, nobs, rule, groups, lims>>

NextAofb == ObserveAofb \/ CreateAofb \/ ApplyAofb
SpecAofb == InitAofb /\ [][NextAofb]_vars

\* the last b points ending at i: all points so far when fewer than b exist
LastPoints(i, b) == {j \in 1..i : j > i - b}
\* point j is at or beyond target + n * se(nobs), resp. target - n * se(nobs)
AtOrAbove(j, n) ==
    SGeq(stat[j], SAdd(target(params).val, SScale(RInt(n), se(params, nobs).val[j])))
AtOrBelow(j, n) ==
    SLeq(stat[j], SSub(target(params).val, SScale(RInt(n), se(params, nobs).val[j])))

\* C3: for a <= b, aofb_nsigma(a, b, n) flags point i exactly when at least a
\* of the last b points ending at i are >= target + n*se(nobs), or at least a
\* of them are <= target - n*se(nobs); the two sides are never added together.
C3_AofbSameSide ==
    (Called("aofb_nsigma") /\ rule.a <= rule.b) =>
        /\ alarms.err = ""
        /\ DOMAIN alarms.val = DOMAIN stat
        /\ \A i \in DOMAIN stat :
             alarms.val[i] <=>
                \/ Cardinality({j \in LastPoints(i, rule.b) : AtOrAbove(j, rule.n)}) >= rule.a
                \/ Cardinality({j \in LastPoints(i, rule.b) : AtOrBelow(j, rule.n)}) >= rule.a

\* C17: aofb_nsigma(a, b, n) fails with a validation error exactly when
\* a > b, when the rule is created and before a statistic is examined (no
\* alarm series exists yet, whatever statistic the caller holds); a = b is
\* accepted, and only a rule that was created is ever applied.
C17_AofbRejectsAAboveB ==
    (rule.name = "aofb_nsigma") =>
        /\ pc \in {"raised", "created", "called"}
        /\ pc = "raised" <=> rule.a > rule.b
        /\ pc = "raised" => alarms = Raise("ValueError")
        /\ pc = "created" => alarms = Unset

\* C17 witness: 3 of 2 refused while the caller holds a statistic.
C17_Witness ==
    /\ pc = "raised" /\ rule = Rule_aofb_nsigma(3, 2, 1)
    /\ alarms = Raise("ValueError")
    /\ Len(stat) = 2

-----------------------------------------------------------------------------
(* n_1side and n_trending. *)

SideVals == {8, 10, 11, 12}
SideParams ==
    { RParams(RInt(10), RInt(1), RInt(3)),
      MewmaParams(<<RInt(0), RInt(0)>>, <<<<RInt(1), RInt(0)>>, <<RInt(0), RInt(1)>>>>,
                  Half, RInt(11)),
      XBarParams(RInt(10), RInt(1), RInt(3)) }

InitSide ==
    /\ params \in SideParams
    /\ index0 = 0
    /\ InitRest

ObserveSide == \E x \in SideVals : Observe(MaxSide, x, 2)
CallN1side == \E n \in 1..MaxWin : Call(Rule_n_1side(n))
CallNTrending == \E n \in 2..MaxWin : Call(Rule_n_trending(n))

NextSide == ObserveSide \/ CallN1side \/ CallNTrending
SpecSide == InitSide /\ [][NextSide]_vars

\* the side of the target point j lies on: 1 above, -1 below, 0 on it
Side(j) == RSign(RSub(stat[j], target(params).val))
\* points s..k lie on one side, and the run does not start before s
RunFrom(s, k) ==
    /\ \A j \in s..k : Side(j) = Side(s)
    /\ s > 1 => Side(s - 1) # Side(s)

\* C4: n_1side(n) flags point i exactly when i ends a complete window of n
\* consecutive points with one and the same sign(stat - target); so within a
\* run on one side the points flagged are the n-th and later ones, none
\* earlier.
C4_N1sideWindow ==
    Called("n_1side") =>
        /\ alarms.err = ""
        /\ DOMAIN alarms.val = DOMAIN stat
        /\ \A i \in DOMAIN stat :
             alarms.val[i] <=>
                (i >= rule.n /\ \A j \in (i - rule.n + 1)..i : Side(j) = Side(i))
        /\ \A s \in DOMAIN stat : \A k \in s..Len(stat) :
             RunFrom(s, k) => (alarms.val[k] <=> k - s + 1 >= rule.n)

\* the sign of the first difference stat[j] - stat[j-1], for j > 1
Trend(j) == RSign(RSub(stat[j], stat[j - 1]))

\* C5: n_trending(n) flags point i exactly when the n consecutive points
\* ending at i exist and their n-1 consecutive first differences have one and
\* the same sign (stated for the calls in which target returns, so that the
\* rule's own windows decide it).
C5_NTrendingWindow ==
    (Called("n_trending") /\ target(params).err = "") =>
        /\ alarms.err = ""
        /\ DOMAIN alarms.val = DOMAIN stat
        /\ \A i \in DOMAIN stat :
             alarms.val[i] <=>
                (i >= rule.n /\ \A j \in (i - rule.n + 2)..i : Trend(j) = Trend(i))

\* C28: n_trending(n) never flags one of the first n-1 points of a series,
\* for every n >= 2 (stated for the calls in which target returns).
C28_NTrendingNeedsNPoints ==
    (Called("n_trending") /\ target(params).err = "") =>
        /\ alarms.err = ""
        /\ \A i \in DOMAIN stat : i < rule.n => ~alarms.val[i]

\* C29: n_1side(n) does not flag a window of n consecutive points that all
\* lie exactly on the target (stated for the calls in which target returns).
C29_OnTargetIsNoSide ==
    (Called("n_1side") /\ target(params).err = "") =>
        /\ alarms.err = ""
        /\ \A i \in DOMAIN stat :
             (i >= rule.n /\ \A j \in (i - rule.n + 1)..i : Side(j) = 0)
                => ~alarms.val[i]

-----------------------------------------------------------------------------
(* Alarm grouping, src/mqr/spc/util.py. *)

\* np.where(alarms)[0]: the 0-based positions at which the series is true
RECURSIVE where(_)
where(bs) ==
    IF Len(bs) = 0 THEN <<>>
    ELSE LET front == where(SubSeq(bs, 1, Len(bs) - 1))
         IN  IF bs[Len(bs)] THEN Append(front, Len(bs) - 1) ELSE front

\* the default is_consecutive
is_consecutive(a, b) == b - a = 1

\* the loop of group_consecutives from element i of array on, and the
\* groups.append(acc) that follows it
RECURSIVE group_loop(_, _, _, _, _)
group_loop(array, i, grps, acc, last) ==
    IF i > Len(array) THEN Append(grps, acc)
    ELSE IF ~is_consecutive(last, array[i])
         THEN group_loop(array, i + 1, Append(grps, acc), <<array[i]>>, array[i])
         ELSE group_loop(array, i + 1, grps, Append(acc, array[i]), array[i])

RECURSIVE group_loop_no_tail(_, _, _, _, _)
group_loop_no_tail(array, i, grps, acc, last) ==
    IF i > Len(array) THEN grps
    ELSE IF ~is_consecutive(last, array[i])
         THEN group_loop_no_tail(array, i + 1, Append(grps, acc), <<array[i]>>, array[i])
         ELSE group_loop_no_tail(array, i + 1, grps, Append(acc, array[i]), array[i])

\* group_consecutives as it would be without the append after the loop
group_consecutives_no_tail(array) ==
    IF Len(array) = 0 THEN <<>>
    ELSE group_loop_no_tail(array, 2, <<>>, <<array[1]>>, array[1])

group_consecutives(array) ==
    IF Len(array) = 0 THEN <<>>
    ELSE group_loop(array, 2, <<>>, <<array[1]>>, array[1])

\* alarm_subsets: each group of positions as the index labels at them
alarm_subsets(bs) ==
    LET grps == group_consecutives(where(bs))
    IN  [g \in DOMAIN grps |-> [k \in DOMAIN grps[g] |-> index0 + grps[g][k]]]

InitSubsets ==
    /\ pc = "input"
    /\ params = MewmaParams(<<RInt(0), RInt(0)>>,
                            <<<<RInt(1), RInt(0)>>, <<RInt(0), RInt(1)>>>>, Half, RInt(11))
    /\ index0 \in {0, 1}
    /\ samples = <<>>
    /\ stat = <<>>
    /\ nobs = <<>>
    /\ rule = NoRule
    /\ alarms = Ok(<<>>)
    /\ groups = <<>>
    /\ lims = <<>>

\* the alarm series a rule returned, one flag longer
ObserveAlarm ==
    /\ pc = "input"
    /\ Len(alarms.val) < MaxAlarms
    /\ \E flag \in BOOLEAN : alarms' = Ok(Append(alarms.val, flag))
    /\ UNCHANGED <<pc, params, samples, index0, stat, nobs, rule, groups, lims>>

CallAlarmSubsets ==
    /\ pc = "input"
    /\ groups' = alarm_subsets(alarms.val)
    /\ pc' = "grouped"
    /\ UNCHANGED <<params, samples, index0, stat, nobs, rule, alarms, lims>>

NextSubsets == ObserveAlarm \/ CallAlarmSubsets
SpecSubsets == InitSubsets /\ [][NextSubsets]_vars

\* the 0-based position whose index label is l, and the positions of group g
PositionOf(l) == l - index0
GroupPositions(g) == {PositionOf(groups[g][k]) : k \in DOMAIN groups[g]}
IsTrueAt(pos) == pos \in 0..(Len(alarms.val) - 1) /\ alarms.val[pos + 1]

\* C7: alarm_subsets returns, in increasing order, the maximal runs of
\* consecutive positions at which alarms is true (each as the index labels at
\* those positions): every true position is in exactly one group, no false
\* position is in a group, a group's positions are consecutive, successive
\* groups are separated by a false position, and an all-false or empty
\* series gives no group; [F,F,T,T,F,T] over the index 0..5 gives [[2,3],[5]].
C7_AlarmSubsetsMaximalRuns ==
    pc = "grouped" =>
        /\ \A g \in DOMAIN groups :
             /\ Len(groups[g]) >= 1
             /\ \A k \in DOMAIN groups[g] : IsTrueAt(PositionOf(groups[g][k]))
             /\ \A k \in 1..(Len(groups[g]) - 1) : groups[g][k + 1] = groups[g][k] + 1
        /\ \A g \in 1..(Len(groups) - 1) :
             LET gap == PositionOf(groups[g][Len(groups[g])]) + 1
             IN  /\ gap < PositionOf(groups[g + 1][1])
                 /\ ~IsTrueAt(gap)
        /\ \A pos \in 0..(Len(alarms.val) - 1) :
             IsTrueAt(pos) =>
                Cardinality({g \in DOMAIN groups : pos \in GroupPositions(g)}) = 1
        /\ (\A pos \in 0..(Len(alarms.val) - 1) : ~IsTrueAt(pos)) => groups = <<>>
        /\ (index0 = 0 /\ alarms.val = <<FALSE, FALSE, TRUE, TRUE, FALSE, TRUE>>)
              => groups = <<<<2, 3>>, <<5>>>>

\* C7 witness: the series [F,F,T,T,F,T] over the index 0..5, grouped.
C7_Witness ==
    /\ pc = "grouped" /\ index0 = 0
    /\ alarms.val = <<FALSE, FALSE, TRUE, TRUE, FALSE, TRUE>>
    /\ groups = <<<<2, 3>>, <<5>>>>

-----------------------------------------------------------------------------
(* statistic(samples) of the EWMA and MEWMA parameter models.  samples is  *)
(* a sequence of rows, each row the sequence of its column values.         *)

\* ControlStatistic as it would be without __post_init__
ControlStatistic_unchecked(st, nb) == Ok([stat |-> st, nobs |-> nb])

\* ControlStatistic(stat, nobs), with the check of __post_init__
ControlStatistic(st, nb) ==
    IF Len(st) # Len(nb) THEN Raise("ValueError")
    ELSE Ok([stat |-> st, nobs |-> nb])

RECURSIVE SumSeq(_)
SumSeq(xs) == IF Len(xs) = 0 THEN 0 ELSE xs[Len(xs)] + SumSeq(SubSeq(xs, 1, Len(xs) - 1))

\* a missing observation (NaN) in a frame; the observations themselves are
\* non-negative integers
NaNCell == -1

\* the observations of a row that are not missing
Present(row) == SelectSeq(row, LAMBDA x : x # NaNCell)

\* samples.mean(axis=1), which skips missing values, and
\* samples.apply(len, axis=1), the length of each row as a series
RowMeans(smp) ==
    [i \in DOMAIN smp |->
        LET xs == Present(smp[i])
        IN  IF xs = <<>> THEN NaN ELSE Rat(SumSeq(xs), Len(xs))]
RowLens(smp) == [i \in DOMAIN smp |-> Len(smp[i])]

\* np.ptp(samples, axis=1): max - min of each row, NaN when a value is missing
RowPtp(smp) ==
    [i \in DOMAIN smp |->
        LET row == smp[i]
            hi == CHOOSE x \in {row[k] : k \in DOMAIN row} :
                    \A y \in {row[k] : k \in DOMAIN row} : y <= x
            lo == CHOOSE x \in {row[k] : k \in DOMAIN row} :
                    \A y \in {row[k] : k \in DOMAIN row} : x <= y
        IN  IF Present(row) # row THEN NaN ELSE RInt(hi - lo)]

\* samples.std(axis=1, ddof=1): the standard deviation of the observations
\* of each row that are not missing, NaN when there are fewer than two
RowStd(smp) ==
    [i \in DOMAIN smp |->
        LET xs == Present(smp[i])
            k  == Len(xs)
            sq == [j \in DOMAIN xs |-> xs[j] * xs[j]]
        IN  IF k < 2 THEN NaN
            ELSE SSqrt(Rat(k * SumSeq(sq) - SumSeq(xs) * SumSeq(xs), k * (k - 1)))]

\* XBarParams.statistic, RParams.statistic, SParams.statistic
XBarParams_statistic(p, smp) == ControlStatistic(RowMeans(smp), RowLens(smp))
RParams_statistic(p, smp) == ControlStatistic(RowPtp(smp), RowLens(smp))
SParams_statistic(p, smp) == ControlStatistic(RowStd(smp), RowLens(smp))

\* series.ewm(alpha=alpha, adjust=False).mean(): y[0] = x[0] and
\* y[t] = (1 - alpha) * y[t-1] + alpha * x[t]
RECURSIVE ewm_mean(_, _)
ewm_mean(xs, alpha) ==
    IF Len(xs) <= 1 THEN xs
    ELSE LET front == ewm_mean(SubSeq(xs, 1, Len(xs) - 1), alpha)
         IN  Append(front, RAdd(RMul(RSub(RInt(1), alpha), front[Len(front)]),
                                RMul(alpha, xs[Len(xs)])))

\* EwmaParams.statistic as it would be without the seed mu_0
EwmaParams_statistic_unseeded(p, smp) ==
    LET ewm == ewm_mean(RowMeans(smp), p.lmda)
    IN  ControlStatistic(ewm, RowLens(smp))

\* the EWMA of mu_0 followed by the row means, without its first element
EwmaParams_statistic(p, smp) ==
    LET samples_z0 == <<p.mu_0>> \o RowMeans(smp)
        ewm == ewm_mean(samples_z0, p.lmda)
    IN  ControlStatistic(Tail(ewm), RowLens(smp))

\* column c of a frame, as rationals
Column(smp, c) == [i \in DOMAIN smp |-> RInt(smp[i][c])]

\* MewmaParams._cov_z(i): the scalar that multiplies cov
MewmaParams_cov_z_factor(p, i) ==
    RMul(RDiv(p.lmda, RSub(RInt(2), p.lmda)),
         RSub(RInt(1), RPow(RSub(RInt(1), p.lmda), 2 * i + 1)))

\* z' * inv(f * cov) * z for a 2-vector z, a 2 x 2 matrix cov and a scalar f;
\* the inverse is the adjugate over the determinant
Hotelling(z, f, cov) ==
    LET det == RSub(RMul(cov[1][1], cov[2][2]), RMul(cov[1][2], cov[2][1]))
        q   == RAdd(RSub(RSub(RMul(RMul(z[1], z[1]), cov[2][2]),
                              RMul(RMul(z[1], z[2]), cov[1][2])),
                         RMul(RMul(z[2], z[1]), cov[2][1])),
                    RMul(RMul(z[2], z[2]), cov[1][1]))
    IN  RDiv(q, RMul(f, det))

\* the EWMA state z of the two columns, seeded with mu, without the seed row
MewmaParams_z(p, smp) ==
    [c \in 1..2 |-> Tail(ewm_mean(<<p.mu[c]>> \o Column(smp, c), p.lmda))]

\* MewmaParams._t2_stat(z, i)
MewmaParams_t2_stat(p, z, i) ==
    Hotelling(<<RSub(z[1], p.mu[1]), RSub(z[2], p.mu[2])>>,
              MewmaParams_cov_z_factor(p, i), p.cov)

MewmaParams_statistic(p, smp) ==
    LET z == MewmaParams_z(p, smp)
        t2 == [i \in DOMAIN smp |-> MewmaParams_t2_stat(p, <<z[1][i], z[2][i]>>, i - 1)]
    IN  ControlStatistic(t2, RowLens(smp))

statistic(p, smp) ==
    CASE p.kind = "XBar" -> XBarParams_statistic(p, smp)
      [] p.kind = "R" -> RParams_statistic(p, smp)
      [] p.kind = "S" -> SParams_statistic(p, smp)
      [] p.kind = "EWMA" -> EwmaParams_statistic(p, smp)
      [] p.kind = "MEWMA" -> MewmaParams_statistic(p, smp)

Third == Rat(1, 3)
RowVals == {0, 3}
IdentityCov == <<<<RInt(1), RInt(0)>>, <<RInt(0), RInt(1)>>>>
CorrelatedCov == <<<<RInt(2), RInt(1)>>, <<RInt(1), RInt(2)>>>>
StatisticParams ==
    { EwmaParams(RInt(1), RInt(1), l, RInt(3), ss) :
        l \in {Half, Third, RInt(1)}, ss \in BOOLEAN }
    \cup { MewmaParams(<<RInt(1), RInt(0)>>, cov, l, RInt(11)) :
             cov \in {IdentityCov, CorrelatedCov}, l \in {Half, Third} }

InitStatistic ==
    /\ params \in StatisticParams
    /\ index0 \in {0, 1}
    /\ InitRest

\* one more row; a frame has the same columns in every row, and a frame for
\* MewmaParams has the two columns of mu
AddRow ==
    /\ pc = "input"
    /\ Len(samples) < MaxRows
    /\ \E width \in 1..2 : \E row \in [1..width -> RowVals] :
         /\ samples # <<>> => Len(samples[1]) = width
         /\ params.kind = "MEWMA" => width = 2
         /\ samples' = Append(samples, row)
    /\ UNCHANGED <<pc, params, index0, stat, nobs, rule, alarms, groups, lims>>

\* control_statistic = control_params.statistic(samples)
CallStatistic ==
    /\ pc = "input"
    /\ LET cs == statistic(params, samples)
       IN  /\ cs.err = ""
           /\ stat' = cs.val.stat
           /\ nobs' = cs.val.nobs
    /\ pc' = "statistic"
    /\ UNCHANGED <<params, samples, index0, rule, alarms, groups, lims>>

\* control_params.lcl(control_statistic.nobs)
CallLcl ==
    /\ pc = "statistic"
    /\ lims' = lcl(params, nobs)
    /\ pc' = "lcl"
    /\ UNCHANGED <<params, samples, index0, stat, nobs, rule, alarms, groups>>

\* control_params.ucl(control_statistic.nobs)
CallUcl ==
    /\ pc = "statistic"
    /\ lims' = ucl(params, nobs)
    /\ pc' = "ucl"
    /\ UNCHANGED <<params, samples, index0, stat, nobs, rule, alarms, groups>>

NextStatistic == AddRow \/ CallStatistic \/ CallLcl \/ CallUcl
SpecStatistic == InitStatistic /\ [][NextStatistic]_vars

HasStatistic == pc \in {"statistic", "lcl", "ucl"}

\* C8: EwmaParams.statistic returns one value per sample row; the value for
\* row t is lmda * mean(row t) + (1 - lmda) * z(t-1) with z(-1) = mu_0, and
\* the seed mu_0 is not an element of the series.
C8_EwmaRecurrence ==
    (HasStatistic /\ params.kind = "EWMA") =>
        /\ Len(stat) = Len(samples)
        /\ \A t \in DOMAIN samples :
             LET mean == Rat(SumSeq(samples[t]), Len(samples[t]))
                 prev == IF t = 1 THEN params.mu_0 ELSE stat[t - 1]
             IN  stat[t] = RAdd(RMul(params.lmda, mean),
                                RMul(RSub(RInt(1), params.lmda), prev))

\* C8 witness: two rows, 0 < lmda < 1, a first row whose mean is not mu_0.
C8_Witness ==
    /\ pc = "statistic" /\ params.kind = "EWMA"
    /\ params.lmda # RInt(1)
    /\ Len(samples) >= 2 /\ Len(stat) = Len(samples)
    /\ stat[1] # params.mu_0
    /\ stat[2] # stat[1]

SEq(x, y) == x.c = y.c /\ x.w = y.w /\ (x.w[1] = 0 \/ x.s = y.s)

\* the half-width the transient formula gives at 0-based position t:
\* L * sigma/sqrt(n) * sqrt(lmda/(2-lmda) * (1 - (1-lmda)^(2t+2))),
\* and the steady-state half-width, without the factor in t
TransientWidth(p, n, t) ==
    SScale(p.L, SSqrt(RMul(RDiv(RMul(p.sigma, p.sigma), RInt(n)),
        RMul(RDiv(p.lmda, RSub(RInt(2), p.lmda)),
             RSub(RInt(1), RPow(RSub(RInt(1), p.lmda), 2 * t + 2))))))
SteadyWidth(p, n) ==
    SScale(p.L, SSqrt(RMul(RDiv(RMul(p.sigma, p.sigma), RInt(n)),
        RDiv(p.lmda, RSub(RInt(2), p.lmda)))))

\* C9: with steady_state = False, lcl and ucl at the t-th row (t from 0, by
\* position) are mu_0 -/+ L * sigma/sqrt(nobs) * sqrt(lmda/(2-lmda) *
\* (1 - (1-lmda)^(2t+2))); with steady_state = True the factor in t is absent.
C9_EwmaLimits ==
    (pc \in {"lcl", "ucl"} /\ params.kind = "EWMA") =>
        /\ lims.err = "" /\ ~lims.none
        /\ DOMAIN lims.val = DOMAIN nobs
        /\ \A i \in DOMAIN nobs :
             LET width == IF params.steady_state THEN SteadyWidth(params, nobs[i])
                          ELSE TransientWidth(params, nobs[i], i - 1)
             IN  SEq(lims.val[i], IF pc = "lcl" THEN SSub(params.mu_0, width)
                                  ELSE SAdd(params.mu_0, width))

\* C10: MewmaParams.statistic at the t-th row (t from 0) is
\* (z_t - mu)' * inverse(Sigma_t) * (z_t - mu), where Sigma_t =
\* lmda/(2-lmda) * (1 - (1-lmda)^(2t+2)) * cov and z follows the EWMA
\* recurrence seeded with mu.
C10_MewmaStatistic ==
    (HasStatistic /\ params.kind = "MEWMA") =>
        /\ Len(stat) = Len(samples)
        /\ \A i \in DOMAIN samples :
             LET z == MewmaParams_z(params, samples)
                 f == RMul(RDiv(params.lmda, RSub(RInt(2), params.lmda)),
                           RSub(RInt(1), RPow(RSub(RInt(1), params.lmda), 2 * (i - 1) + 2)))
             IN  stat[i] = Hotelling(<<RSub(z[1][i], params.mu[1]),
                                       RSub(z[2][i], params.mu[2])>>, f, params.cov)

-----------------------------------------------------------------------------
(* Calls of the parameter models' methods, of their factories and of the   *)
(* bias-constant functions.  The caller builds a nobs series, then makes   *)
(* one call, passing the series or (when it has one element) that element  *)
(* as a scalar; the outcome of the call is kept in lims.                   *)

\* longest nobs series passed to a method
MaxNobs == 2
NobsVals == {1, 2, 5, 100, 101}

\* the body of c4 / d2 / d3 for a series n: the range check, then the lookup
\* at n - 2, element by element
BiasConstant(table, n) ==
    IF OutOfTable(n) THEN Raise("ValueError")
    ELSE Ok([i \in DOMAIN n |-> lookup(n[i] - TableMin, table)])

\* the same body for a scalar n: np.any of a scalar comparison is the
\* comparison, and lookup returns table[index]
BiasConstantScalar(table, n) ==
    LET r == BiasConstant(table, <<n>>)
    IN  IF r.err # "" THEN r ELSE Ok(r.val[1])

BiasTable(name) ==
    CASE name = "c4" -> c4_table
      [] name = "d2" -> d2_table
      [] name = "d3" -> d3_table

\* the element of a one-element limit series, for a call with a scalar
ScalarOf(r) == IF r.err # "" \/ r.none THEN r ELSE [r EXCEPT !.val = r.val[1]]

\* lcl(nobs) and ucl(nobs) for a scalar nobs: the Shewhart models compute
\* with the scalar; EwmaParams.lcl / ucl and MewmaParams.ucl read nobs.index,
\* which a number does not have
lcl_scalar(p, n) ==
    CASE p.kind = "EWMA" -> LimitRaise("AttributeError")
      [] OTHER -> ScalarOf(lcl(p, <<n>>))
ucl_scalar(p, n) ==
    CASE p.kind \in {"EWMA", "MEWMA"} -> LimitRaise("AttributeError")
      [] OTHER -> ScalarOf(ucl(p, <<n>>))

\* XBarParams.from_stddev, XBarParams.from_range, RParams.from_range for a
\* scalar nobs (the name field of the object is not modelled)
XBarParams_from_stddev(centre, s_bar, n, nsigma) ==
    LET c == BiasConstantScalar(c4_table, n)
    IN  IF c.err # "" THEN c ELSE Ok(XBarParams(centre, RDiv(s_bar, c.val), nsigma))
XBarParams_from_range(centre, r_bar, n, nsigma) ==
    LET d == BiasConstantScalar(d2_table, n)
    IN  IF d.err # "" THEN d ELSE Ok(XBarParams(centre, RDiv(r_bar, d.val), nsigma))
RParams_from_range(r_bar, n, nsigma) ==
    LET d == BiasConstantScalar(d2_table, n)
    IN  IF d.err # "" THEN d ELSE Ok(RParams(r_bar, RDiv(r_bar, d.val), RInt(3)))

ParamsObjects ==
    { XBarParams(RInt(4), RInt(2), RInt(3)),
      RParams(RInt(4), RInt(2), RInt(3)),
      RParams(RInt(4), RInt(2), RInt(1)),
      SParams(RInt(2), RInt(3)),
      SParams(RInt(2), RInt(1)),
      EwmaParams(RInt(4), RInt(2), TwoThirds, RInt(2), TRUE),
      EwmaParams(RInt(4), RInt(2), TwoThirds, RInt(2), FALSE),
      MewmaParams(<<RInt(0), RInt(0)>>, IdentityCov, Half, RInt(6)) }

\* the call that was made: the function and the form of its argument
MethodCall(name, scalar) == [name |-> name, scalar |-> scalar]

InitParams ==
    /\ params \in ParamsObjects
    /\ index0 = 0
    /\ InitRest

ObserveNobs ==
    /\ pc = "input"
    /\ Len(nobs) < MaxNobs
    /\ \E n \in NobsVals : nobs' = Append(nobs, n)
    /\ UNCHANGED <<pc, params, samples, index0, stat, rule, alarms, groups, lims>>

\* the call returns (or raises) out
Return(call, out) ==
    /\ pc = "input"
    /\ rule' = call
    /\ lims' = out
    /\ pc' = "returned"
    /\ UNCHANGED <<params, samples, index0, stat, nobs, alarms, groups>>

TargetCall == Return(MethodCall("target", FALSE), target(params))
SeCall == Return(MethodCall("se", FALSE), se(params, nobs))
LclCall == Return(MethodCall("lcl", FALSE), lcl(params, nobs))
UclCall == Return(MethodCall("ucl", FALSE), ucl(params, nobs))
LclScalarCall ==
    Len(nobs) = 1 /\ Return(MethodCall("lcl", TRUE), lcl_scalar(params, nobs[1]))
UclScalarCall ==
    Len(nobs) = 1 /\ Return(MethodCall("ucl", TRUE), ucl_scalar(params, nobs[1]))
BiasCall == \E f \in {"c4", "d2", "d3"} :
    Return(MethodCall(f, FALSE), BiasConstant(BiasTable(f), nobs))
BiasScalarCall == \E f \in {"c4", "d2", "d3"} :
    Len(nobs) = 1 /\ Return(MethodCall(f, TRUE), BiasConstantScalar(BiasTable(f), nobs[1]))
FactoryCall ==
    /\ Len(nobs) = 1
    /\ \/ Return(MethodCall("XBarParams.from_stddev", TRUE),
                 XBarParams_from_stddev(RInt(4), RInt(2), nobs[1], RInt(2)))
       \/ Return(MethodCall("XBarParams.from_range", TRUE),
                 XBarParams_from_range(RInt(4), RInt(2), nobs[1], RInt(2)))
       \/ Return(MethodCall("RParams.from_range", TRUE),
                 RParams_from_range(RInt(4), nobs[1], RInt(2)))

NextParams ==
    \/ ObserveNobs
    \/ TargetCall \/ SeCall \/ LclCall \/ UclCall
    \/ LclScalarCall \/ UclScalarCall
    \/ BiasCall \/ BiasScalarCall
    \/ FactoryCall
SpecParams == InitParams /\ [][NextParams]_vars

\* the call name(series) returned or raised
Returned(name) == pc = "returned" /\ rule.name = name /\ ~rule.scalar

\* C11: XBarParams.target() returns centre for every parameter object,
\* without failing.
C11_XBarTargetIsCentre ==
    (Returned("target") /\ params.kind = "XBar") => lims = Ok(params.centre)

\* nsigma * sigma / sqrt(n)
XBarWidth(p, n) == SScale(p.nsigma, SSqrt(RDiv(RMul(p.sigma, p.sigma), RInt(n))))

\* C12: XBarParams.lcl(nobs) and ucl(nobs) return centre - nsigma*sigma/sqrt(nobs)
\* and centre + nsigma*sigma/sqrt(nobs): both limits are defined, and
\* symmetric about centre.
C12_XBarLimits ==
    ((Returned("lcl") \/ Returned("ucl")) /\ params.kind = "XBar") =>
        /\ lims.err = "" /\ ~lims.none
        /\ DOMAIN lims.val = DOMAIN nobs
        /\ \A i \in DOMAIN nobs :
             SEq(lims.val[i],
                 IF rule.name = "lcl" THEN SSub(params.centre, XBarWidth(params, nobs[i]))
                 ELSE SAdd(params.centre, XBarWidth(params, nobs[i])))

InTable(n) == \A i \in DOMAIN n : n[i] >= 2 /\ n[i] <= 100

\* the surd x is zero, and is negative
SZero(x) == x.c = RInt(0) /\ x.w = RInt(0)
SNegative(x) == ~SLeq(RInt(0), x)

\* C13: for RParams and SParams and nobs in [2,100], lcl(nobs) is
\* max(0, centre - nsigma*se(nobs)), and so is never negative.
C13_LclClampedAtZero ==
    (Returned("lcl") /\ params.kind \in {"R", "S"} /\ InTable(nobs)) =>
        /\ lims.err = "" /\ ~lims.none
        /\ DOMAIN lims.val = DOMAIN nobs
        /\ \A i \in DOMAIN nobs :
             LET raw == SSub(params.centre, SScale(params.nsigma, se(params, nobs).val[i]))
             IN  /\ ~SNegative(lims.val[i])
                 /\ IF SNegative(raw) THEN SZero(lims.val[i]) ELSE SEq(lims.val[i], raw)

\* C13 witness: a lower limit clamped to 0 at one sample size and left above
\* 0 at another, in one call.
C13_Witness ==
    /\ Returned("lcl") /\ params.kind \in {"R", "S"} /\ lims.err = ""
    /\ Len(nobs) = 2
    /\ SZero(lims.val[1])
    /\ SNegative(SSub(params.centre, SScale(params.nsigma, se(params, nobs).val[1])))
    /\ ~SZero(lims.val[2]) /\ ~SNegative(lims.val[2])

\* C14: for MewmaParams and any nobs series, lcl(nobs) is None, target() is
\* 0, and ucl(nobs) is a series over the index of nobs with every entry equal
\* to limit.
C14_MewmaLimits ==
    (pc = "returned" /\ params.kind = "MEWMA" /\ ~rule.scalar) =>
        /\ rule.name = "lcl" => (lims.err = "" /\ lims.none)
        /\ rule.name = "target" => lims = Ok(RInt(0))
        /\ rule.name = "ucl" =>
             /\ lims.err = "" /\ ~lims.none
             /\ DOMAIN lims.val = DOMAIN nobs
             /\ \A i \in DOMAIN nobs : lims.val[i] = SConst(params.limit)

\* C14 witness: ucl of a MewmaParams object on two different sample sizes.
C14_Witness ==
    /\ Returned("ucl") /\ params.kind = "MEWMA"
    /\ Len(nobs) = 2 /\ nobs[1] # nobs[2]
    /\ lims.val = <<SConst(params.limit), SConst(params.limit)>>

\* C15: c4(n), d2(n) and d3(n) return the table entry at position n-2,
\* element-wise, when every n is in [2,100], and fail with a range error,
\* with no partial result, when any element is below 2 or above 100.
C15_BiasConstantRange ==
    (pc = "returned" /\ rule.name \in {"c4", "d2", "d3"}) =>
        LET table == BiasTable(rule.name)
        IN  IF InTable(nobs)
            THEN /\ lims.err = ""
                 /\ IF rule.scalar THEN lims.val = Rat(table[nobs[1] - 1], 1000)
                    ELSE /\ DOMAIN lims.val = DOMAIN nobs
                         /\ \A i \in DOMAIN nobs :
                              lims.val[i] = Rat(table[nobs[i] - 1], 1000)
            ELSE lims = Raise("ValueError")

\* C15 witness: d3 of the two ends of the range, in one call.
C15_Witness ==
    /\ Returned("d3") /\ nobs = <<100, 2>>
    /\ lims = Ok(<<Rat(605, 1000), Rat(853, 1000)>>)

\* C16: every factory and every limit function of the XBar, R and S models
\* fails with the range error of the bias constants when the sample size is
\* outside [2,100], and returns no value for it.
C16_RangeErrorEverywhere ==
    (/\ pc = "returned"
     /\ ~InTable(nobs)
     /\ \/ rule.name \in {"XBarParams.from_stddev", "XBarParams.from_range",
                          "RParams.from_range"}
        \/ rule.name \in {"se", "lcl", "ucl"} /\ params.kind \in {"XBar", "R", "S"})
    => lims.err = "ValueError"

\* C20: for every parameter model, lcl and ucl called with a nobs series
\* return a series with the index of nobs, and called with a scalar nobs
\* return a scalar without failing (for sample sizes within [2,100]; the lcl
\* of XBarParams and of MewmaParams, which is None, is left aside).
C20_LimitShapes ==
    (/\ pc = "returned" /\ rule.name \in {"lcl", "ucl"} /\ InTable(nobs)
     /\ ~(rule.name = "lcl" /\ params.kind \in {"XBar", "MEWMA"}))
    => /\ lims.err = "" /\ ~lims.none
       /\ ~rule.scalar => DOMAIN lims.val = DOMAIN nobs
       /\ rule.scalar => lims.val = ScalarOf(IF rule.name = "lcl" THEN lcl(params, nobs)
                                             ELSE ucl(params, nobs)).val

-----------------------------------------------------------------------------
(* Construction of control statistics: by statistic(samples) of each       *)
(* parameter model, from frames that may have missing observations, and by *)
(* ControlStatistic(stat, nobs) directly, from two series built apart.     *)

FrameParams ==
    { XBarParams(RInt(4), RInt(2), RInt(3)),
      RParams(RInt(4), RInt(2), RInt(3)),
      SParams(RInt(2), RInt(3)),
      EwmaParams(RInt(1), RInt(1), Half, RInt(3), FALSE),
      MewmaParams(<<RInt(1), RInt(0)>>, IdentityCov, Half, RInt(11)) }

InitFrame ==
    /\ params \in FrameParams
    /\ index0 = 0
    /\ InitRest

\* one more row of a frame; an observation may be missing, but not all
\* observations of a row, and none in a frame for MewmaParams
AddRowNa ==
    /\ pc = "input" /\ stat = <<>> /\ nobs = <<>>
    /\ Len(samples) < MaxRows
    /\ \E width \in 1..2 : \E row \in [1..width -> RowVals \cup {NaNCell}] :
         /\ samples # <<>> => Len(samples[1]) = width
         /\ Present(row) # <<>>
         /\ params.kind = "MEWMA" => (width = 2 /\ Present(row) = row)
         /\ samples' = Append(samples, row)
    /\ UNCHANGED <<pc, params, index0, stat, nobs, rule, alarms, groups, lims>>

\* control_statistic = control_params.statistic(samples)
CallStatisticFrame == stat = <<>> /\ nobs = <<>> /\ CallStatistic

\* a stat series and a nobs series, built apart
BuildStat ==
    /\ pc = "input" /\ samples = <<>>
    /\ Len(stat) < MaxRows
    /\ \E x \in RowVals : stat' = Append(stat, RInt(x))
    /\ UNCHANGED <<pc, params, samples, index0, nobs, rule, alarms, groups, lims>>
BuildNobs ==
    /\ pc = "input" /\ samples = <<>>
    /\ Len(nobs) < MaxRows
    /\ nobs' = Append(nobs, 2)
    /\ UNCHANGED <<pc, params, samples, index0, stat, rule, alarms, groups, lims>>

\* ControlStatistic(stat, nobs); lims keeps the object or what was raised
Construct ==
    /\ pc = "input" /\ samples = <<>>
    /\ lims' = ControlStatistic(stat, nobs)
    /\ pc' = "constructed"
    /\ UNCHANGED <<params, samples, index0, stat, nobs, rule, alarms, groups>>

\* the mean of a non-empty series of rationals
RECURSIVE RSum(_)
RSum(xs) == IF Len(xs) = 0 THEN RInt(0) ELSE RAdd(xs[1], RSum(Tail(xs)))
RMean(xs) == RDiv(RSum(xs), RInt(Len(xs)))

\* RParams.from_data(samples, nsigma), for a frame without missing values
RParams_from_data(smp, nsigma) ==
    LET r_bar == RMean(RowPtp(smp))
        d == BiasConstantScalar(d2_table, Len(smp[1]))
    IN  IF d.err # "" THEN d ELSE Ok(RParams(r_bar, RDiv(r_bar, d.val), nsigma))

\* the nsigma that the caller passes to a factory
FactoryNsigma == RInt(2)

\* RParams.from_data(samples, nsigma)
FromDataCall ==
    /\ samples # <<>>
    /\ \A i \in DOMAIN samples : Present(samples[i]) = samples[i]
    /\ Return(MethodCall("RParams.from_data", FALSE),
              RParams_from_data(samples, FactoryNsigma))

NextFrame ==
    AddRowNa \/ CallStatisticFrame \/ BuildStat \/ BuildNobs \/ Construct \/ FromDataCall
SpecFrame == InitFrame /\ [][NextFrame]_vars

\* C18: ControlStatistic(stat, nobs) with series of different lengths fails
\* with a validation error and yields no object; and the statistic that any
\* parameter model returns for samples has one stat and one nobs per row.
C18_StatAndNobsSameLength ==
    /\ pc = "constructed" =>
          IF Len(stat) # Len(nobs) THEN lims = Raise("ValueError")
          ELSE lims = Ok([stat |-> stat, nobs |-> nobs])
    /\ pc = "statistic" => (Len(stat) = Len(samples) /\ Len(nobs) = Len(samples))

\* C18 witness: two stat values against one nobs value, refused.
C18_Witness ==
    /\ pc = "constructed" /\ Len(stat) = 2 /\ Len(nobs) = 1
    /\ lims = Raise("ValueError")

\* C19: in the statistic returned for samples, nobs of a row is the number
\* of observations of the row that are not missing.
C19_NobsCountsObservations ==
    pc = "statistic" =>
        /\ Len(nobs) = Len(samples)
        /\ \A i \in DOMAIN samples : nobs[i] = Len(Present(samples[i]))

\* C30: RParams.from_range(r_bar, nobs, nsigma) returns parameters with the
\* nsigma it was given, centre = r_bar and sigma = r_bar/d2(nobs): the object
\* that RParams.from_data returns for samples with that mean range and that
\* subgroup size.
C30_FromRangeKeepsNsigma ==
    (pc = "returned" /\ rule.name = "RParams.from_data" /\ lims.err = "") =>
        LET r_bar == RMean(RowPtp(samples))
            n == Len(samples[1])
            made == RParams_from_range(r_bar, n, FactoryNsigma)
        IN  /\ made.err = ""
            /\ made.val.nsigma = FactoryNsigma
            /\ made.val.centre = r_bar
            /\ made.val.sigma = RDiv(r_bar, Rat(d2_table[n - 1], 1000))
            /\ made = lims

-----------------------------------------------------------------------------
\* mqr.utils.fredholm2: Nystrom's method for a Fredholm equation of the
\* second kind, over exact rationals.  The grid x is in samples, the weights
\* w are in stat, the other arguments are in params and the outcome in lims.

MaxGrid == 2

\* a sequence without its k-th element
Drop(xs, k) == [n \in 1..(Len(xs) - 1) |-> IF n < k THEN xs[n] ELSE xs[n + 1]]

\* the determinant of a square matrix of rationals, by its first row
RECURSIVE Det(_)
Det(M) ==
    IF Len(M) = 0 THEN RInt(1)
    ELSE IF Len(M) = 1 THEN M[1][1]
    ELSE LET term(j) ==
                 LET minor == [i \in 1..(Len(M) - 1) |-> Drop(M[i + 1], j)]
                     t == RMul(M[1][j], Det(minor))
                 IN  IF j % 2 = 1 THEN t ELSE RNeg(t)
         IN  RSum([j \in 1..Len(M) |-> term(j)])

\* np.linalg.solve(M, b): the solution of M L = b, or LinAlgError when M
\* is singular
linalg_solve(M, b) ==
    LET d == Det(M)
        col(j) == [i \in 1..Len(M) |->
                     [k \in 1..Len(M) |-> IF k = j THEN b[i] ELSE M[i][k]]]
    IN  IF Len(M) > 0 /\ d = RInt(0) THEN Raise("LinAlgError")
        ELSE Ok([j \in 1..Len(M) |-> RDiv(Det(col(j)), d)])

\* the kernels and the functions g that a caller passes
Kernels == {"zero", "one", "product"}
Functions == {"const5", "identity", "reciprocal"}

fn_K(K, t, s) ==
    CASE K = "zero" -> RInt(0)
      [] K = "one" -> RInt(1)
      [] K = "product" -> RMul(t, s)

fn_g(g, t) ==
    CASE g = "const5" -> Ok(RInt(5))
      [] g = "identity" -> Ok(t)
      [] g = "reciprocal" ->
           IF t = RInt(0) THEN Raise("ZeroDivisionError") ELSE Ok(RDiv(RInt(1), t))

\* the right-hand side that the loop of fredholm2 fills: g[i] = fn_g(i),
\* for the indices i = 0 .. N-1
fredholm2_g(g, N) == [i \in 1..N |-> fn_g(g, RInt(i - 1))]

\* the linear system and the interpolation of fredholm2, for a right-hand
\* side of outcomes of fn_g
Nystrom(t0, K, g, lmda, x, w, rhs) ==
    LET N == Len(x)
        failed == {i \in 1..N : rhs[i].err # ""}
        first == CHOOSE i \in failed : \A k \in failed : i <= k
        A == [i \in 1..N |-> [j \in 1..N |->
                RSub(IF i = j THEN RInt(1) ELSE RInt(0),
                     RMul(lmda, RMul(w[j], fn_K(K, x[i], x[j]))))]]
        L == linalg_solve(A, [i \in 1..N |-> rhs[i].val])
        gt == fn_g(g, t0)
        terms == [j \in 1..N |-> RMul(RMul(w[j], L.val[j]), fn_K(K, t0, x[j]))]
    IN  IF failed # {} THEN rhs[first]
        ELSE IF L.err # "" THEN L
        ELSE IF gt.err # "" THEN gt
        ELSE Ok(RAdd(gt.val, RMul(lmda, RSum(terms))))

fredholm2(t0, K, g, lmda, x, w) ==
    IF Len(x) # Len(w) THEN Raise("ValueError")
    ELSE Nystrom(t0, K, g, lmda, x, w, fredholm2_g(g, Len(x)))

GridPoints == {RInt(1), RInt(2)}
GridWeights == {Rat(1, 2), RInt(1)}
FredholmArgs ==
    [kind : {"fredholm2"}, t0 : {RInt(0), RInt(2)}, fn_K : Kernels,
     fn_g : Functions, lmda : {Rat(1, 2), RInt(1)}]

InitFredholm ==
    /\ params \in FredholmArgs
    /\ index0 = 0
    /\ InitRest

\* one more quadrature point
AddPoint ==
    /\ pc = "input"
    /\ Len(samples) < MaxGrid
    /\ \E v \in GridPoints : samples' = Append(samples, v)
    /\ UNCHANGED <<pc, params, index0, stat, nobs, rule, alarms, groups, lims>>

\* one more quadrature weight
AddWeight ==
    /\ pc = "input"
    /\ Len(stat) < MaxGrid
    /\ \E v \in GridWeights : stat' = Append(stat, v)
    /\ UNCHANGED <<pc, params, samples, index0, nobs, rule, alarms, groups, lims>>

CallFredholm2 ==
    Return(MethodCall("fredholm2", FALSE),
           fredholm2(params.t0, params.fn_K, params.fn_g, params.lmda, samples, stat))

NextFredholm == AddPoint \/ AddWeight \/ CallFredholm2

SpecFredholm == InitFredholm /\ [][NextFredholm]_vars

\* C23: for the kernel K = 0, fredholm2(t0, K, g, lmda, x, w) returns g(t0),
\* for every g, t0, lmda and grid with len(x) = len(w).
C23_ZeroKernelReturnsG ==
    (Returned("fredholm2") /\ params.fn_K = "zero" /\ Len(samples) = Len(stat)) =>
        lims = fn_g(params.fn_g, params.t0)

\* C27: fredholm2 solves (I - lmda A) L = g(x) with A[i][j] = w[j] K(x[i], x[j])
\* and right-hand side g(x[i]), and returns
\* g(t0) + lmda * sum_j w[j] L[j] K(t0, x[j]).
C27_SystemUsesGAtNodes ==
    (Returned("fredholm2") /\ Len(samples) = Len(stat)) =>
        lims = Nystrom(params.t0, params.fn_K, params.fn_g, params.lmda,
                       samples, stat,
                       [i \in 1..Len(samples) |-> fn_g(params.fn_g, samples[i])])

-----------------------------------------------------------------------------
\* Construction of parameter objects: the classes are dataclasses whose
\* generated constructors store the arguments in the fields.

NoParams == [kind |-> "none"]
SigmaArgs == {RInt(-1), RInt(0), RInt(1), RInt(2)}
LmdaArgs == {Rat(-1, 2), RInt(0), Half, RInt(1), RInt(2)}

InitNew ==
    /\ params = NoParams
    /\ index0 = 0
    /\ InitRest

New(object) ==
    /\ pc = "input"
    /\ params' = object
    /\ pc' = "new"
    /\ UNCHANGED <<samples, index0, stat, nobs, rule, alarms, groups, lims>>

NewXBarParams ==
    \E sigma \in SigmaArgs, nsigma \in SigmaArgs :
        New(XBarParams(RInt(4), sigma, nsigma))
NewRParams ==
    \E sigma \in SigmaArgs, nsigma \in SigmaArgs :
        New(RParams(RInt(4), sigma, nsigma))
NewSParams == \E nsigma \in SigmaArgs : New(SParams(RInt(2), nsigma))
NewEwmaParams ==
    \E sigma \in SigmaArgs, lmda \in LmdaArgs, L \in SigmaArgs, ss \in BOOLEAN :
        New(EwmaParams(RInt(4), sigma, lmda, L, ss))
NewMewmaParams ==
    \E cov \in {IdentityCov, CorrelatedCov}, lmda \in LmdaArgs :
        New(MewmaParams(<<RInt(0), RInt(0)>>, cov, lmda, RInt(6)))

NextNew ==
    NewXBarParams \/ NewRParams \/ NewSParams \/ NewEwmaParams \/ NewMewmaParams

SpecNew == InitNew /\ [][NextNew]_vars

\* C22: every EwmaParams and MewmaParams object has 0 < lmda <= 1, and every
\* parameter object has sigma > 0 and nsigma > 0 (in the fields it has):
\* construction with a value outside these ranges is rejected.
C22_ParamsInRange ==
    pc = "new" =>
        /\ params.kind \in {"EWMA", "MEWMA"} =>
              (RSign(params.lmda) > 0 /\ RLeq(params.lmda, RInt(1)))
        /\ "sigma" \in DOMAIN params => RSign(params.sigma) > 0
        /\ "nsigma" \in DOMAIN params => RSign(params.nsigma) > 0

-----------------------------------------------------------------------------
\* mqr.inference.proportion.confint_1sample.  The arguments of the call are
\* in params; bounded is "absent" when the caller does not pass it.

\* the fields of the dataclass ConfidenceInterval, none of which has a default
ConfidenceInterval_fields ==
    {"name", "method", "value", "lower", "upper", "conf", "bounded"}

\* ConfidenceInterval(**kwargs): the generated constructor wants every field
ConfidenceInterval(kwargs) ==
    IF DOMAIN kwargs = ConfidenceInterval_fields THEN Ok(kwargs)
    ELSE Raise("TypeError")

\* the parameters of confint_1sample
confint_1sample_parameters == {"count", "nobs", "conf", "method"}

\* confint_1sample(**args), for the interval (lower, upper) that
\* statsmodels' proportion_confint returns
confint_1sample(args, lower, upper) ==
    IF ~(DOMAIN args \subseteq confint_1sample_parameters) THEN Raise("TypeError")
    ELSE ConfidenceInterval(
             [name |-> "proportion", value |-> Rat(args.count, args.nobs),
              lower |-> lower, upper |-> upper, conf |-> args.conf])

ConfintCounts == 0..4
ConfintNobs == {4, 10}
ConfintMethods == {"beta", "agresti_coull", "wilson"}
ConfintArgs ==
    [count : ConfintCounts, nobs : ConfintNobs, conf : {Rat(9, 10)},
     method : ConfintMethods]
    \cup [count : ConfintCounts, nobs : ConfintNobs, conf : {Rat(9, 10)},
          method : ConfintMethods, bounded : {"both", "below", "above"}]

InitConfint ==
    /\ params \in ConfintArgs
    /\ index0 = 0
    /\ InitRest

\* the call; the interval of the library is some interval within [0, 1]
CallConfint1sample ==
    \E lower \in {RInt(0), Rat(1, 4)}, upper \in {Rat(3, 4), RInt(1)} :
        Return(MethodCall("confint_1sample", FALSE),
               confint_1sample(params, lower, upper))

NextConfint == CallConfint1sample

SpecConfint == InitConfint /\ [][NextConfint]_vars

\* C25: confint_1sample accepts an argument bounded and, for every count and
\* method, returns an interval with upper limit 1 when bounded = 'below' and
\* with lower limit 0 when bounded = 'above'.
C25_BoundedOneSided ==
    (Returned("confint_1sample") /\ "bounded" \in DOMAIN params) =>
        /\ lims.err = ""
        /\ params.bounded = "below" => lims.val.upper = RInt(1)
        /\ params.bounded = "above" => lims.val.lower = RInt(0)

-----------------------------------------------------------------------------
\* mqr.doe.Design: construction of designs and their concatenation.  groups
\* holds the designs made so far, lims the outcome of the last operation.
\* A design keeps its run labels in runs and one row of levels per run;
\* pttypes is a series with one entry per run, or None.

MaxRuns == 2

NoSeries == [none |-> TRUE, val |-> <<>>]
Series(v) == [none |-> FALSE, val |-> v]

Design(names, levels, runs, pttypes, blocks) ==
    [names |-> names, levels |-> levels, runs |-> runs, pttypes |-> pttypes,
     blocks |-> blocks]

\* pd.RangeIndex(1, m+1)
RangeIndex1(m) == [i \in 1..m |-> i]

\* Design.from_levels(names, levels, runs); runs is a series of labels or
\* None, and blocks is a frame without columns whose index is runs
Design_from_levels(names, levels, runs) ==
    IF \E i \in DOMAIN levels : Len(levels[i]) # Len(names)
    THEN Raise("AttributeError")
    ELSE IF ~runs.none /\ Len(runs.val) # Len(levels) THEN Raise("AttributeError")
    ELSE LET labels == IF runs.none THEN RangeIndex1(Len(levels)) ELSE runs.val
         IN  Ok(Design(names, levels, labels, NoSeries, labels))

\* Design.from_centrepoints(names, n)
Design_from_centrepoints(names, n) ==
    LET levels == [i \in 1..n |-> [c \in DOMAIN names |-> 0]]
        design == Design_from_levels(names, levels, NoSeries)
    IN  Ok([design.val EXCEPT !.pttypes = Series([i \in 1..n |-> 0])])

\* self.runs.max(), for a non-empty index
IndexMax(runs) == CHOOSE m \in {runs[i] : i \in DOMAIN runs} :
                      \A i \in DOMAIN runs : runs[i] <= m

\* pd.concat([a, b], axis=0).set_axis(labels) for two series that may be
\* None: None is dropped, unless both are None
concat_set_axis(a, b, labels) ==
    IF a.none /\ b.none THEN Raise("ValueError")
    ELSE LET both == a.val \o b.val
         IN  IF Len(both) # Len(labels) THEN Raise("ValueError")
             ELSE Ok(Series(both))

\* Design.__add__(self, other)
Design_add(self, other) ==
    IF self.names # other.names THEN Raise("AttributeError")
    ELSE LET offset == IndexMax(self.runs)
             new_runs == self.runs \o
                           [i \in DOMAIN other.runs |-> other.runs[i] + offset]
             new_levels == self.levels \o other.levels
             new_pttypes == concat_set_axis(self.pttypes, other.pttypes, new_runs)
         IN  IF new_pttypes.err # "" THEN new_pttypes
             ELSE Ok(Design(self.names, new_levels, new_runs, new_pttypes.val,
                            new_runs))

DesignNames == {<<"x1">>, <<"x2">>}
RunLabels == 0..2
\* the rows of levels of a design in one variable
LevelRows == UNION {[1..m -> {<<-1>>, <<1>>}] : m \in 1..MaxRuns}
\* None, or labels that the caller chooses: distinct, in any order
RunsArgs ==
    {NoSeries} \cup
    {Series(r) : r \in {q \in UNION {[1..m -> RunLabels] : m \in 1..MaxRuns} :
                          \A i, j \in DOMAIN q : q[i] = q[j] => i = j}}

InitDesign ==
    /\ params = NoParams
    /\ index0 = 0
    /\ InitRest

\* a factory returns a design, or raises
Made(out) ==
    /\ pc = "input"
    /\ Len(groups) < 2
    /\ lims' = out
    /\ IF out.err = "" THEN groups' = Append(groups, out.val) /\ pc' = pc
       ELSE groups' = groups /\ pc' = "raised"
    /\ UNCHANGED <<params, samples, index0, stat, nobs, rule, alarms>>

FromLevels ==
    \E names \in DesignNames, levels \in LevelRows, runs \in RunsArgs :
        Made(Design_from_levels(names, levels, runs))

FromCentrepoints ==
    \E names \in DesignNames, n \in 1..MaxRuns :
        Made(Design_from_centrepoints(names, n))

\* groups[1] + groups[2]
Add ==
    /\ pc = "input"
    /\ Len(groups) = 2
    /\ lims' = Design_add(groups[1], groups[2])
    /\ pc' = "added"
    /\ UNCHANGED <<params, samples, index0, stat, nobs, rule, alarms, groups>>

NextDesign == FromLevels \/ FromCentrepoints \/ Add

SpecDesign == InitDesign /\ [][NextDesign]_vars

\* C26: for two designs a and b with the same variable names, a + b is a
\* design of len(a) + len(b) runs: the runs of a first, with their labels,
\* then the runs of b with their labels offset to continue after those of a,
\* and no label occurs twice; for different names the sum is an error.
C26_AddConcatenatesRuns ==
    pc = "added" =>
        LET a == groups[1]
            b == groups[2]
            sum == lims.val
        IN  IF a.names # b.names THEN lims.err = "AttributeError"
            ELSE /\ lims.err = ""
                 /\ Len(sum.runs) = Len(a.runs) + Len(b.runs)
                 /\ \A i \in DOMAIN a.runs :
                      sum.runs[i] = a.runs[i] /\ sum.levels[i] = a.levels[i]
                 /\ \A i \in DOMAIN b.runs :
                      /\ sum.runs[Len(a.runs) + i] = b.runs[i] + IndexMax(a.runs)
                      /\ sum.levels[Len(a.runs) + i] = b.levels[i]
                 /\ \A i, j \in DOMAIN sum.runs :
                      sum.runs[i] = sum.runs[j] => i = j

-----------------------------------------------------------------------------
\* Two evaluations that share one parameter object.  Each evaluator has its
\* own batch of samples and runs control_params.statistic(samples) and then
\* the rule aofb_nsigma(1, 2, 1) on the result, one statement at a time; the
\* statements of the two evaluators interleave in any order.  Every variable
\* but params is a function of the evaluator and holds its local values:
\* groups the EWMA state z, stat and nobs the statistic, rule the target and
\* the standard errors that the rule has read, alarms its result.  lims
\* keeps the parameter object as it was constructed.

MaxBatch == 2

Evaluators == {"a", "b"}

SharedParams ==
    { MewmaParams(<<RInt(1), RInt(0)>>, CorrelatedCov, Half, RInt(11)),
      RParams(RInt(2), RInt(1), RInt(3)) }

\* frames of two columns without missing values
Batches == UNION {[1..m -> {<<0, 3>>, <<3, 3>>}] : m \in 1..MaxBatch}

\* one iteration of the loop of MewmaParams.statistic as it would be if
\* the object kept the EWMA state of the last row in mu
MewmaParams_t2_step_stateful(p, z, i) ==
    [self |-> [p EXCEPT !.mu = z], t2 |-> MewmaParams_t2_stat(p, z, i)]

\* one iteration of the loop of MewmaParams.statistic,
\* t2.iloc[i] = self._t2_stat(z.values[i].T, i): the value stored and the
\* object after the call
MewmaParams_t2_step(p, z, i) ==
    [self |-> p, t2 |-> MewmaParams_t2_stat(p, z, i)]

InitShared ==
    /\ params \in SharedParams
    /\ lims = params
    /\ index0 = 0
    /\ pc = [e \in Evaluators |-> "begin"]
    /\ samples \in [Evaluators -> Batches]
    /\ stat = [e \in Evaluators |-> <<>>]
    /\ nobs = [e \in Evaluators |-> <<>>]
    /\ groups = [e \in Evaluators |-> <<>>]
    /\ rule = [e \in Evaluators |-> Unset]
    /\ alarms = [e \in Evaluators |-> Unset]

\* the first statements of statistic: MewmaParams computes z and makes the
\* empty series t2; RParams.statistic is one expression
Begin(e) ==
    /\ pc[e] = "begin"
    /\ IF params.kind = "MEWMA"
       THEN /\ groups' = [groups EXCEPT ![e] = MewmaParams_z(params, samples[e])]
            /\ pc' = [pc EXCEPT ![e] = "loop"]
            /\ UNCHANGED <<stat, nobs>>
       ELSE LET cs == statistic(params, samples[e])
            IN  /\ stat' = [stat EXCEPT ![e] = cs.val.stat]
                /\ nobs' = [nobs EXCEPT ![e] = cs.val.nobs]
                /\ pc' = [pc EXCEPT ![e] = "made"]
                /\ UNCHANGED groups
    /\ UNCHANGED <<params, samples, index0, rule, alarms, lims>>

\* for i in range(samples.shape[0]): t2.iloc[i] = self._t2_stat(...)
Iterate(e) ==
    /\ pc[e] = "loop"
    /\ Len(stat[e]) < Len(samples[e])
    /\ LET i == Len(stat[e])
           step == MewmaParams_t2_step(
                       params, <<groups[e][1][i + 1], groups[e][2][i + 1]>>, i)
       IN  /\ stat' = [stat EXCEPT ![e] = Append(stat[e], step.t2)]
           /\ params' = step.self
    /\ UNCHANGED <<pc, samples, index0, nobs, groups, rule, alarms, lims>>

\* return ControlStatistic(stat=t2, nobs=samples.apply(len, axis=1))
Make(e) ==
    /\ pc[e] = "loop"
    /\ Len(stat[e]) = Len(samples[e])
    /\ nobs' = [nobs EXCEPT ![e] = ControlStatistic(stat[e], RowLens(samples[e])).val.nobs]
    /\ pc' = [pc EXCEPT ![e] = "made"]
    /\ UNCHANGED <<params, samples, index0, stat, groups, rule, alarms, lims>>

\* a statement of the rule raises: the rule ends with the exception
Raised(e, exc) ==
    /\ alarms' = [alarms EXCEPT ![e] = Raise(exc)]
    /\ pc' = [pc EXCEPT ![e] = "done"]
    /\ UNCHANGED rule

\* target = control_params.target()
ReadTarget(e) ==
    /\ pc[e] = "made"
    /\ LET t == target(params)
       IN  IF t.err # "" THEN Raised(e, t.err)
           ELSE /\ rule' = [rule EXCEPT ![e] = [target |-> t.val, se |-> <<>>]]
                /\ pc' = [pc EXCEPT ![e] = "target"]
                /\ UNCHANGED alarms
    /\ UNCHANGED <<params, samples, index0, stat, nobs, groups, lims>>

\* se = control_params.se(nobs)
ReadSe(e) ==
    /\ pc[e] = "target"
    /\ LET s == se(params, nobs[e])
       IN  IF s.err # "" THEN Raised(e, s.err)
           ELSE /\ rule' = [rule EXCEPT ![e].se = s.val]
                /\ pc' = [pc EXCEPT ![e] = "se"]
                /\ UNCHANGED alarms
    /\ UNCHANGED <<params, samples, index0, stat, nobs, groups, lims>>

\* the two loops over the rolling windows, and return alarms
Flag(e) ==
    /\ pc[e] = "se"
    /\ alarms' = [alarms EXCEPT ![e] =
                    Ok(aofb_nsigma_alarms(1, 2, 1, stat[e], rule[e].target, rule[e].se))]
    /\ pc' = [pc EXCEPT ![e] = "done"]
    /\ UNCHANGED <<params, samples, index0, stat, nobs, groups, rule, lims>>

NextShared ==
    \E e \in Evaluators :
        Begin(e) \/ Iterate(e) \/ Make(e) \/ ReadTarget(e) \/ ReadSe(e) \/ Flag(e)

SpecShared == InitShared /\ [][NextShared]_vars

\* C21: evaluating the statistic and a rule never changes a field of the
\* parameter object, and evaluations that interleave on one shared parameter
\* object return what the same evaluations return when each runs alone on
\* the object as constructed.
C21_SharedEvaluationsAreSequential ==
    /\ params = lims
    /\ \A e \in Evaluators :
         pc[e] = "done" =>
            LET cs == statistic(lims, samples[e])
            IN  /\ cs.err = ""
                /\ stat[e] = cs.val.stat
                /\ nobs[e] = cs.val.nobs
                /\ alarms[e] = aofb_nsigma(1, 2, 1, cs.val.stat, cs.val.nobs, lims)

\* one evaluation has finished while the other, on a different batch, is in
\* the middle of its loop over the rows
C21_Witness ==
    /\ pc["a"] = "done"
    /\ pc["b"] = "loop"
    /\ Len(stat["b"]) = 1
    /\ Len(samples["b"]) = 2
    /\ samples["a"] # samples["b"]

=============================================================================
